---- MODULE Spec2Model ----
(***************************************************************************)
(* CMEF X crypto dashboard (src/cmef_x_bitvavo_app.py): the scoring        *)
(* function compute_cmef_scores and the "Generate CMEF X Report" handler.  *)
(*                                                                         *)
(* Numbers.  The program works in binary floating point; the model works   *)
(* in exact decimal fixed point:                                           *)
(*   - scores (A1..B6, K, M, OTS, RAR on 0..5, R on 0..1) in thousandths,  *)
(*     the precision of the program's round(x, 3);                         *)
(*   - the unrounded risks r_tech, r_reg, r_fin in millionths;             *)
(*   - fractional returns in ten-thousandths (basis points);               *)
(*   - alpha in tenths; market capitalisation in millions of EUR.          *)
(* round(x, 3) of a float whose decimal value lies exactly half way        *)
(* between two thousandths goes up or down with the float's representation *)
(* error, which decimal arithmetic cannot see: RoundOutcomes gives both    *)
(* neighbours there and the single nearest thousandth everywhere else.     *)
(***************************************************************************)
EXTENDS Integers, Sequences, FiniteSets

VARIABLES pc, profile, cg_info, best_market, ticker, candles, gh_obj, alpha,
          results, rec, error

vars == <<pc, profile, cg_info, best_market, ticker, candles, gh_obj, alpha,
          results, rec, error>>

(* Python's None, and a present value. *)
None == << >>
Some(x) == <<x>>
IsNone(o) == o = None
Get(o) == o[1]

Min(a, b) == IF a <= b THEN a ELSE b
Max(a, b) == IF a >= b THEN a ELSE b

(***************************************************************************)
(* Bounds and input domains                                                *)
(***************************************************************************)
\* Longest candle history drawn (the program asks Bitvavo for up to 31).
MaxCandles == 3

\* Candle prices.  Every return between two of them is a whole number of
\* basis points, so returns and the 30-day change are exact.
Prices == {50, 100, 125}

\* 24h volumes: none, half the reference volume, twice the reference volume.
Volumes == {0, 500000000, 2000000000}

\* Ticker "last" prices: the 0 sentinel and a valid price.
LastPrices == {0, 100}

\* Market capitalisations in millions of EUR: 1e9, the reference 1.2e12, 2e12.
MarketCaps == {1000, 1200000, 2000000}

TwitterFollowers == {1260000}
RedditSubscribers == {6000000}
StarCounts == {0, 6300, 50000}
IssueCounts == {0, 12600}

\* RAR values (whole points) offered to the recommendation ladder on its own.
MaxLadderRar == 100

(***************************************************************************)
(* Program constants                                                       *)
(***************************************************************************)
RefVolume == 1000000000
RefStars == 50000
RefFollowers == 5000000
\* log10(1.2e12) = 12.0791812..., in ten-thousandths
Log10RefE4 == 120792
\* log10(1e6) in ten-thousandths: market caps are held in millions of EUR
Log10MillionE4 == 6 * 10000
B5 == 2500
A15Fallback == 2500
RTechDefault == 500000
RTechBase == 200000
RTechSlope == 1200000
RTechMin == 100000
RTechMax == 900000
r_reg == 300000
RFinDefault == 400000
RFinBase == 100000
RFinSpan == 800000
\* 3 / sqrt(365) = 0.157027..., the daily deviation (in millionths) at which
\* vol / 3.0 reaches 1
StdCapMicro == 157028
\* 0.8 * sqrt(365) / 3.0 = 5.09466: millionths of r_fin per millionth of
\* daily deviation, as a whole part and hundred-thousandths
VolWhole == 5
VolFracE5 == 9466

(***************************************************************************)
(* round(x, 3)                                                             *)
(***************************************************************************)
\* The thousandths round(n / d, 3 places) can return, n >= 0 and d > 0 being
\* the exact value's numerator and denominator in thousandths.
RoundOutcomes(n, d) ==
    LET q == n \div d
        r == n % d
    IN  IF 2 * r < d THEN {q}
        ELSE IF 2 * r > d THEN {q + 1}
        ELSE {q, q + 1}

\* to_score_0_5(n / d): round(max(0.0, min(5.0, value * 5.0)), 3), in thousandths
to_score_0_5(n, d) ==
    IF n <= 0 THEN {0}
    ELSE IF n >= d THEN {5000}
    ELSE IF d % 5000 = 0 THEN RoundOutcomes(n, d \div 5000)
    ELSE RoundOutcomes(5000 * n, d)

(***************************************************************************)
(* normalize_log                                                           *)
(***************************************************************************)
\* log10 of the leading digits of the market caps drawn, in ten-thousandths
Log10Table == [m \in {1, 2, 3, 4, 5, 6, 7, 8, 9, 12} |->
    CASE m = 1 -> 0      [] m = 2 -> 3010   [] m = 3 -> 4771
      [] m = 4 -> 6021   [] m = 5 -> 6990   [] m = 6 -> 7782
      [] m = 7 -> 8451   [] m = 8 -> 9031   [] m = 9 -> 9542
      [] m = 12 -> 10792]

\* math.log10(x) in ten-thousandths, x = m * 10^e with m in the table
RECURSIVE Log10E4(_)
Log10E4(x) ==
    IF x % 10 = 0 THEN 10000 + Log10E4(x \div 10) ELSE Log10Table[x]

\* normalize_log(x, ref=1.2e12) as a fraction <<numerator, denominator>>;
\* capM is x in millions of EUR, or None
normalize_log(capM) ==
    IF IsNone(capM) \/ Get(capM) <= 0 THEN <<0, 1>>
    ELSE <<Min(Log10RefE4, Max(0, Log10MillionE4 + Log10E4(Get(capM)))), Log10RefE4>>

(***************************************************************************)
(* compute_cmef_scores: the K-Score proxies                                *)
(***************************************************************************)
\* market_cap_eur: cg_info['market_data']['market_cap']['eur'] when present
market_cap_eur(cg) ==
    IF IsNone(cg) THEN None ELSE Get(cg).market_cap_eur

\* A1 = to_score_0_5(normalize_log(market_cap_eur if market_cap_eur else 0.0))
A1(cg) ==
    LET f == normalize_log(market_cap_eur(cg))
    IN  to_score_0_5(f[1], f[2])

\* A5 with the quotient upside down: 1e9 / volume
A5_inverted(volume) == to_score_0_5(RefVolume, volume)

\* A5 = to_score_0_5(min(1.0, volume / 1e9))
A5(volume) == to_score_0_5(Min(volume, RefVolume), RefVolume)

\* pct_30d computed from a single row: len(candles) >= 1
pct_30d_from_one_row(c) ==
    IF IsNone(c) \/ Len(Get(c)) < 1 THEN None
    ELSE LET earliest == Get(c)[1].open
             latest == Get(c)[Len(Get(c))].close
         IN  IF earliest # 0
             THEN Some(((latest - earliest) * 10000) \div earliest)
             ELSE Some(0)

\* pct_30d starting from 0.0 instead of None
pct_30d_zero_default(c) ==
    IF IsNone(c) \/ Len(Get(c)) < 2 THEN Some(0)
    ELSE LET earliest == Get(c)[1].open
             latest == Get(c)[Len(Get(c))].close
         IN  IF earliest # 0
             THEN Some(((latest - earliest) * 10000) \div earliest)
             ELSE Some(0)

\* pct_30d in basis points, or None: (latest - earliest) / earliest over the
\* first open and the last close, 0.0 for a zero open
pct_30d(c) ==
    IF IsNone(c) \/ Len(Get(c)) < 2 THEN None
    ELSE LET earliest == Get(c)[1].open
             latest == Get(c)[Len(Get(c))].close
         IN  IF earliest # 0
             THEN Some(((latest - earliest) * 10000) \div earliest)
             ELSE Some(0)

\* A15 scoring a missing history 0, as a missing market cap is scored
A15_zero_fallback(c) ==
    IF IsNone(pct_30d(c)) THEN {0}
    ELSE LET perf_norm == Max(0, Min(20000, Get(pct_30d(c)) + 10000))
         IN  to_score_0_5(perf_norm, 20000)

\* A15: the 30-day performance score, 2.5 when there is no pct_30d
A15(c) ==
    IF IsNone(pct_30d(c)) THEN {A15Fallback}
    ELSE LET perf_norm == Max(0, Min(20000, Get(pct_30d(c)) + 10000))
         IN  to_score_0_5(perf_norm, 20000)

\* K = round(A1*0.4 + A5*0.3 + A15*0.3, 3)
KOutcomes(a1, a5, a15) == RoundOutcomes(4 * a1 + 3 * a5 + 3 * a15, 10)

(***************************************************************************)
(* compute_cmef_scores: the M-Score proxies                                *)
(***************************************************************************)
github_stars(gh) == IF IsNone(gh) THEN None ELSE Some(Get(gh).stargazers_count)

OrZero(o) == IF IsNone(o) THEN 0 ELSE Get(o)

\* B1 = to_score_0_5(min(1.0, (github_stars or 0) / 50000.0))
B1(gh) == to_score_0_5(Min(OrZero(github_stars(gh)), RefStars), RefStars)

twitter_followers(cg) == IF IsNone(cg) THEN None ELSE Get(cg).twitter_followers
reddit_subs(cg) == IF IsNone(cg) THEN None ELSE Get(cg).reddit_subscribers

\* B6 = to_score_0_5((tw_norm + rd_norm) / 2)
B6(cg) ==
    LET tw == Min(OrZero(twitter_followers(cg)), RefFollowers)
        rd == Min(OrZero(reddit_subs(cg)), RefFollowers)
    IN  to_score_0_5(tw + rd, 2 * RefFollowers)

\* M = round(B1*0.4 + B6*0.4 + B5*0.2, 3)
MOutcomes(b1, b6) == RoundOutcomes(4 * b1 + 4 * b6 + 2 * B5, 10)

(***************************************************************************)
(* compute_cmef_scores: the R-Score components                             *)
(***************************************************************************)
\* r_tech without the clamp to 0.1..0.9
r_tech_unclamped(gh) ==
    IF IsNone(gh) \/ Get(gh).stargazers_count <= 0 THEN RTechDefault
    ELSE LET s == Get(gh).stargazers_count
             n == (RTechSlope \div 1000) * Get(gh).open_issues_count
         IN  RTechBase + 1000 * (n \div s) + (1000 * (n % s)) \div s

\* r_tech in millionths: min(0.9, max(0.1, 0.2 + (issues / s) * 1.2)) for
\* s > 0 stars, else the default 0.5
r_tech(gh) ==
    IF IsNone(gh) \/ Get(gh).stargazers_count <= 0 THEN RTechDefault
    ELSE LET s == Get(gh).stargazers_count
             n == (RTechSlope \div 1000) * Get(gh).open_issues_count
             scaled == 1000 * (n \div s) + (1000 * (n % s)) \div s
         IN  Min(RTechMax, Max(RTechMin, RTechBase + scaled))

\* returns = np.diff(closes) / closes[:-1], in basis points
Returns(c) == [i \in 1..(Len(c) - 1) |->
                  ((c[i + 1].close - c[i].close) * 10000) \div c[i].close]

RECURSIVE SumSeq(_)
SumSeq(s) == IF s = << >> THEN 0 ELSE s[1] + SumSeq(Tail(s))

RECURSIVE SumSquares(_)
SumSquares(s) == IF s = << >> THEN 0 ELSE s[1] * s[1] + SumSquares(Tail(s))

\* floor(sqrt(x)) by bisection, lo*lo <= x < hi*hi
RECURSIVE ISqrtBetween(_, _, _)
ISqrtBetween(x, lo, hi) ==
    IF hi - lo <= 1 THEN lo
    ELSE LET mid == (lo + hi) \div 2
         IN  IF mid * mid <= x THEN ISqrtBetween(x, mid, hi)
             ELSE ISqrtBetween(x, lo, mid)

ISqrt(x) == ISqrtBetween(x, 0, 46341)

\* One more decimal digit of a square root: <<s, r>> with r = x - s*s becomes
\* <<10s + d, 100r - (20s + d)d>> for the largest digit d that fits.
SqrtDigit(sr) ==
    LET s == sr[1]
        r == sr[2]
        d == CHOOSE k \in 0..9 :
                /\ (20 * s + k) * k <= 100 * r
                /\ \A j \in (k + 1)..9 : (20 * s + j) * j > 100 * r
    IN  <<10 * s + d, 100 * r - (20 * s + d) * d>>

\* floor(100 * sqrt(x))
Sqrt100(x) ==
    LET s == ISqrt(x)
    IN  SqrtDigit(SqrtDigit(<<s, x - s * s>>))[1]

\* np.std(returns) in millionths: sqrt(n * sum(r^2) - sum(r)^2) / n
StdMicro(rs) ==
    LET n == Len(rs)
    IN  Sqrt100(n * SumSquares(rs) - SumSeq(rs) * SumSeq(rs)) \div n

\* r_fin in millionths: 0.1 + min(1.0, np.std(returns) * sqrt(365) / 3.0) * 0.8
\* when there are at least two candles, else the default 0.4
r_fin(c) ==
    IF IsNone(c) \/ Len(Get(c)) < 2 THEN RFinDefault
    ELSE LET std == StdMicro(Returns(Get(c)))
         IN  IF std >= StdCapMicro THEN RFinBase + RFinSpan
             ELSE RFinBase + VolWhole * std + (std * VolFracE5) \div 100000

\* R = round(r_tech*0.4 + r_reg*0.35 + r_fin*0.25, 3)
ROutcomes(rt, rf) == RoundOutcomes(8 * rt + 7 * r_reg + 5 * rf, 20000)

(***************************************************************************)
(* compute_cmef_scores: OTS, RAR and the returned dict                     *)
(***************************************************************************)
\* OTS = round(K * alpha + M * (1 - alpha), 3), alpha in tenths
OTSOutcomes(K, M, a) == RoundOutcomes(a * K + (10 - a) * M, 10)

\* RAR = round(OTS * (1 - R), 3)
RAROutcomes(OTS, R) == RoundOutcomes(OTS * (1000 - R), 1000)

\* The dicts compute_cmef_scores(market, ticker, candles, cg_info,
\* gh_repo_obj, alpha) can return: one, unless a rounding falls half way.
compute_cmef_scores(market, tk, c, cg, gh, a) ==
    LET comps == {[A1_market_cap |-> a1, A5_volume |-> a5, A15_perf |-> a15,
                   B1_github |-> b1, B6_community |-> b6, B5_incentives |-> B5] :
                     a1 \in A1(cg), a5 \in A5(tk.volume), a15 \in A15(c),
                     b1 \in B1(gh), b6 \in B6(cg)}
        rt == r_tech(gh)
        rf == r_fin(c)
        scored == UNION {
            {[comp |-> x, K |-> k, M |-> m, R |-> r] :
                k \in KOutcomes(x.A1_market_cap, x.A5_volume, x.A15_perf),
                m \in MOutcomes(x.B1_github, x.B6_community),
                r \in ROutcomes(rt, rf)} : x \in comps}
        blended == UNION {
            {[comp |-> y.comp, K |-> y.K, M |-> y.M, R |-> y.R, OTS |-> o] :
                o \in OTSOutcomes(y.K, y.M, a)} : y \in scored}
    IN  UNION {
            {[price |-> tk.last, volume |-> tk.volume,
              K |-> z.K, M |-> z.M, OTS |-> z.OTS, R |-> z.R, RAR |-> rar,
              trace |-> [bitvavo_price |-> tk.last,
                         bitvavo_volume |-> tk.volume,
                         coingecko_market_cap_eur |-> market_cap_eur(cg),
                         pct_change_30d |-> pct_30d(c),
                         K_components |-> z.comp,
                         github_stars |-> github_stars(gh),
                         coingecko_twitter_followers |-> twitter_followers(cg),
                         coingecko_reddit_subscribers |-> reddit_subs(cg),
                         r_tech_calc |-> rt,
                         r_fin_calc |-> rf],
              market |-> market] :
                rar \in RAROutcomes(z.OTS, z.R)} : z \in blended}

(***************************************************************************)
(* What the fetchers can return                                            *)
(***************************************************************************)
\* A daily candle history of n rows: each day opens where the last one closed.
History(o, cl) ==
    [i \in 1..Len(cl) |->
        [open |-> IF i = 1 THEN o ELSE cl[i - 1], close |-> cl[i]]]

Histories ==
    UNION {{History(o, cl) : o \in Prices, cl \in [1..n -> Prices]} :
              n \in 1..MaxCandles}

\* fetch_bitvavo_candles: None on failure or empty data, else a DataFrame
CandleResponses == {None} \cup {Some(h) : h \in Histories}

\* fetch_bitvavo_ticker_24h: None on failure, else the floats of the ticker
\* ("last" and "volume" are 0 when the key is missing)
TickerResponses ==
    {None, Some([last |-> 0, volume |-> 0])}
        \cup {Some([last |-> l, volume |-> v]) : l \in LastPrices \ {0}, v \in Volumes}

Optional(S) == {None} \cup {Some(x) : x \in S}

\* fetch_coingecko_coin: None, or the fields compute_cmef_scores reads
CgResponses ==
    {None} \cup {Some([market_cap_eur |-> m, twitter_followers |-> t,
                       reddit_subscribers |-> r]) :
                    m \in Optional(MarketCaps), t \in Optional(TwitterFollowers),
                    r \in Optional(RedditSubscribers)}

\* fetch_github_repo: None, or the repository's counts
GhResponses ==
    {None} \cup {Some([stargazers_count |-> st, open_issues_count |-> i]) :
                    st \in StarCounts, i \in IssueCounts}

\* find_best_bitvavo_market_for_coin: None without markets, else a market
MarketResponses == {None, Some("BTC-EUR")}

(***************************************************************************)
(* The page: profile selectbox and alpha_map                               *)
(***************************************************************************)
\* A selectbox that also offers a profile alpha_map does not know
ProfileOptionsOpen == {"Conservative", "Balanced", "Growth", "Aggressive"}

\* st.selectbox("Select investment profile", [...])
ProfileOptions == {"Conservative", "Balanced", "Growth"}

\* alpha_map, in tenths
alpha_map == [p \in {"Conservative", "Balanced", "Growth"} |->
                 CASE p = "Conservative" -> 7 [] p = "Balanced" -> 6 [] p = "Growth" -> 5]

\* alpha_map.get(profile, 0.6)
alpha_map_get(p) == IF p \in DOMAIN alpha_map THEN alpha_map[p] ELSE 6

\* The mapping with the labels of its two middle rungs exchanged
RecommendationSwapped(rar) ==
    IF rar >= 65000 THEN "Core"
    ELSE IF rar >= 50000 THEN "Small / Cautious"
    ELSE IF rar >= 35000 THEN "Tactical / Core"
    ELSE IF rar >= 20000 THEN "Speculative / Small"
    ELSE "Avoid"

\* The mapping with its thresholds on the 0-5 scale of RAR
RecommendationScale5(rar) ==
    IF rar >= 3250 THEN "Core"
    ELSE IF rar >= 2500 THEN "Tactical / Core"
    ELSE IF rar >= 1750 THEN "Small / Cautious"
    ELSE IF rar >= 1000 THEN "Speculative / Small"
    ELSE "Avoid"

\* The portfolio recommendation mapping, RAR in thousandths
Recommendation(rar) ==
    IF rar >= 65000 THEN "Core"
    ELSE IF rar >= 50000 THEN "Tactical / Core"
    ELSE IF rar >= 35000 THEN "Small / Cautious"
    ELSE IF rar >= 20000 THEN "Speculative / Small"
    ELSE "Avoid"

(***************************************************************************)
(* The "Generate CMEF X Report" run                                        *)
(***************************************************************************)
\* A script run starts with none of the handler's values.
Cleared ==
    /\ cg_info' = None
    /\ best_market' = None
    /\ ticker' = None
    /\ candles' = None
    /\ gh_obj' = None
    /\ alpha' = None
    /\ results' = None
    /\ rec' = None
    /\ error' = FALSE

Init ==
    /\ pc = "idle"
    /\ profile = "Conservative"
    /\ cg_info = None
    /\ best_market = None
    /\ ticker = None
    /\ candles = None
    /\ gh_obj = None
    /\ alpha = None
    /\ results = None
    /\ rec = None
    /\ error = FALSE

\* The user picks another profile. The widgets stay live while a run waits on
\* its requests: at any point of a run the script is stopped and rerun from the
\* top with the button not pressed, the handler's names and output gone.
SelectProfile ==
    /\ \E p \in ProfileOptions \ {profile} : profile' = p
    /\ pc' = "idle"
    /\ Cleared

\* The user picks or types another coin name: a rerun with the button not
\* pressed, as for the profile.
SelectCoin ==
    /\ pc' = "idle"
    /\ Cleared
    /\ UNCHANGED profile

\* The user presses "Generate CMEF X Report", also while a run is under way:
\* that run is stopped and a new one starts.
ClickGenerate ==
    /\ pc' = "resolve"
    /\ Cleared
    /\ UNCHANGED profile

\* cg_info = fetch_coingecko_coin(coin_id) if coin_id else None
ResolveCoinGecko ==
    /\ pc = "resolve"
    /\ \E cg \in CgResponses : cg_info' = cg
    /\ pc' = "bitvavo"
    /\ UNCHANGED <<profile, best_market, ticker, candles, gh_obj, alpha,
                   results, rec, error>>

\* bit_markets = fetch_bitvavo_markets(); best_market =
\* find_best_bitvavo_market_for_coin(...). For a listing that is not empty, has
\* no BTC-EUR and no entry with both "base" and "market", next(iter(...)) raises
\* StopIteration: the run ends there with nothing more bound or shown.
FetchMarkets ==
    /\ pc = "bitvavo"
    /\ \/ /\ \E m \in MarketResponses : best_market' = m
          /\ pc' = "ticker"
       \/ /\ best_market' = best_market
          /\ pc' = "aborted"
    /\ UNCHANGED <<profile, cg_info, ticker, candles, gh_obj, alpha, results,
                   rec, error>>

\* ticker = fetch_bitvavo_ticker_24h(best_market) if best_market else None
FetchTicker ==
    /\ pc = "ticker"
    /\ \E t \in (IF IsNone(best_market) THEN {None} ELSE TickerResponses) :
          ticker' = t
    /\ pc' = "candles"
    /\ UNCHANGED <<profile, cg_info, best_market, candles, gh_obj, alpha,
                   results, rec, error>>

\* candles = fetch_bitvavo_candles(best_market) if best_market else None
FetchCandles ==
    /\ pc = "candles"
    /\ \E c \in (IF IsNone(best_market) THEN {None} ELSE CandleResponses) :
          candles' = c
    /\ pc' = "github"
    /\ UNCHANGED <<profile, cg_info, best_market, ticker, gh_obj, alpha,
                   results, rec, error>>

\* gh_obj only for a repository CoinGecko names; alpha = alpha_map.get(profile, 0.6)
FetchGitHub ==
    /\ pc = "github"
    /\ \E g \in (IF IsNone(cg_info) THEN {None} ELSE GhResponses) : gh_obj' = g
    /\ alpha' = Some(alpha_map_get(profile))
    /\ pc' = "check"
    /\ UNCHANGED <<profile, cg_info, best_market, ticker, candles, results, rec, error>>

\* The price check without the 0 sentinel: not ticker
NoPriceMissingOnly == IsNone(ticker)

\* not ticker or ticker.get("last", 0) <= 0
NoPrice == IF IsNone(ticker) THEN TRUE ELSE Get(ticker).last <= 0

\* st.error("Could not fetch market price from Bitvavo ...")
ShowError ==
    /\ pc = "check"
    /\ NoPrice
    /\ error' = TRUE
    /\ pc' = "done"
    /\ UNCHANGED <<profile, cg_info, best_market, ticker, candles, gh_obj, alpha,
                   results, rec>>

\* results = compute_cmef_scores(best_market, ticker, candles, cg_info, gh_obj, alpha)
ComputeScores ==
    /\ pc = "check"
    /\ ~NoPrice
    /\ \E out \in compute_cmef_scores(best_market, Get(ticker), candles, cg_info,
                                      gh_obj, Get(alpha)) :
          results' = Some(out)
    /\ pc' = "scored"
    /\ UNCHANGED <<profile, cg_info, best_market, ticker, candles, gh_obj, alpha,
                   rec, error>>

\* The KPIs and the report are rendered, ending with the recommendation.
Report ==
    /\ pc = "scored"
    /\ rec' = Some(Recommendation(Get(results).RAR))
    /\ pc' = "done"
    /\ UNCHANGED <<profile, cg_info, best_market, ticker, candles, gh_obj, alpha,
                   results, error>>

Next ==
    \/ SelectProfile
    \/ SelectCoin
    \/ ClickGenerate
    \/ ResolveCoinGecko
    \/ FetchMarkets
    \/ FetchTicker
    \/ FetchCandles
    \/ FetchGitHub
    \/ ShowError
    \/ ComputeScores
    \/ Report

Spec == Init /\ [][Next]_vars

(***************************************************************************)
(* compute_cmef_scores on its own: every accepted input, then the call     *)
(***************************************************************************)
\* price > 0, volume >= 0
ValidTickers == {t \in TickerResponses : ~IsNone(t) /\ Get(t).last > 0}

ScoreInit ==
    /\ pc = "check"
    /\ profile \in ProfileOptions
    /\ alpha = Some(alpha_map_get(profile))
    /\ best_market = Some("BTC-EUR")
    /\ ticker \in ValidTickers
    /\ candles \in CandleResponses \cup {Some(<< >>)}
    /\ cg_info \in CgResponses
    /\ gh_obj \in GhResponses
    /\ results = None
    /\ rec = None
    /\ error = FALSE

ScoreSpec == ScoreInit /\ [][ComputeScores]_vars

(***************************************************************************)
(* The recommendation mapping on its own: any RAR, then the mapping        *)
(***************************************************************************)
LadderRars == {1000 * k + j : k \in 0..MaxLadderRar, j \in {0, 999}}

LadderInit ==
    /\ pc = "scored"
    /\ profile \in ProfileOptions
    /\ alpha = Some(alpha_map_get(profile))
    /\ best_market = Some("BTC-EUR")
    /\ ticker = None
    /\ candles = None
    /\ cg_info = None
    /\ gh_obj = None
    /\ \E r \in LadderRars : results = Some([RAR |-> r])
    /\ rec = None
    /\ error = FALSE

LadderSpec == LadderInit /\ [][Report]_vars

(***************************************************************************)
(* Properties                                                              *)
(***************************************************************************)
Scored == ~IsNone(results)
Res == Get(results)
TheProfiles == {"Conservative", "Balanced", "Growth"}

\* candles absent, or fewer than 2 rows
NoHistory == IF IsNone(candles) THEN TRUE ELSE Len(Get(candles)) < 2

\* the ticker is absent or its last price is the 0 sentinel
PriceUnusable == IF IsNone(ticker) THEN TRUE ELSE Get(ticker).last <= 0

(* C1: every dict compute_cmef_scores returns for an accepted input has
   0 <= K <= 5, 0 <= M <= 5, 0 <= R <= 1, 0 <= OTS <= 5 and 0 <= RAR <= 5. *)
C1_Bounds ==
    Scored =>
        /\ 0 <= Res.K /\ Res.K <= 5000
        /\ 0 <= Res.M /\ Res.M <= 5000
        /\ 0 <= Res.R /\ Res.R <= 1000
        /\ 0 <= Res.OTS /\ Res.OTS <= 5000
        /\ 0 <= Res.RAR /\ Res.RAR <= 5000

\* scored without candles and without CoinGecko data, for a repository with
\* more open issues than stars (r_tech at its cap)
C1_Witness ==
    /\ Scored
    /\ IsNone(candles)
    /\ IsNone(cg_info)
    /\ ~IsNone(gh_obj)
    /\ Get(gh_obj).stargazers_count > 0
    /\ Get(gh_obj).open_issues_count > Get(gh_obj).stargazers_count
    /\ Res.trace.r_tech_calc = RTechMax

\* The ladder of the specification on the 0-5 scale, per profile.
SpecLadder(rar, p) ==
    LET rung == IF rar >= 3250 THEN 4
                ELSE IF rar >= 2500 THEN 3
                ELSE IF rar >= 1750 THEN 2
                ELSE IF rar >= 1000 THEN 1
                ELSE 0
        shift == CASE p = "Conservative" -> 0 [] p = "Balanced" -> 1 [] p = "Growth" -> 2
        level == Min(4, rung + shift)
    IN  CASE level = 4 -> "Core"
          [] level = 3 -> "Tactical"
          [] level = 2 -> "Small/Cautious"
          [] OTHER -> "Avoid"

\* The program's label under the name the specification uses for it.
SpecName(label) ==
    CASE label = "Tactical / Core" -> "Tactical"
      [] label = "Small / Cautious" -> "Small/Cautious"
      [] OTHER -> label

(* C2: the recommendation shown is the one the 0-5 scale ladder gives for the
   selected profile and the RAR of the run (inclusive thresholds 3.25, 2.50,
   1.75, 1.00, shifted one rung per profile from Conservative to Growth). *)
C2_SpecLadderShown ==
    ~IsNone(rec) => SpecName(Get(rec)) = SpecLadder(Res.RAR, profile)

(* C3: a run that comes to the price check with its ticker absent or with a
   last price <= 0 shows the error and never computes scores nor shows a
   recommendation; scores are computed only once every fetch has returned and
   only for a price > 0; and a run with a price > 0 that is left to finish
   always ends with scores and a recommendation, whatever else is absent. A
   run stopped before the check (by the user, or by the market lookup raising)
   has computed and shown nothing. *)
C3_PriceGate ==
    /\ error => IsNone(results) /\ IsNone(rec)
    /\ pc \in {"idle", "resolve", "bitvavo", "ticker", "candles", "github",
               "check", "aborted"} =>
           IsNone(results) /\ IsNone(rec) /\ ~error
    /\ Scored => ~PriceUnusable /\ ~IsNone(alpha)
    /\ (pc = "done" /\ PriceUnusable) => error
    /\ (pc = "done" /\ ~PriceUnusable) => ~error /\ Scored /\ ~IsNone(rec)

\* the error is shown for a ticker with the 0 sentinel, candles and CoinGecko
\* data being there
C3_Witness ==
    /\ pc = "done"
    /\ error
    /\ ~IsNone(ticker)
    /\ Get(ticker).last = 0
    /\ ~IsNone(candles)
    /\ ~IsNone(cg_info)

(* C4: with the candles absent or fewer than 2, compute_cmef_scores uses
   A15 = 2.5 and r_fin = 0.4 exactly, whatever the other inputs. *)
C4_HistoryFallback ==
    (Scored /\ NoHistory) =>
        /\ Res.trace.K_components.A15_perf = 2500
        /\ Res.trace.r_fin_calc = 400000

\* scored on a single candle, with volume, CoinGecko and GitHub data present
C4_Witness ==
    /\ Scored
    /\ ~IsNone(candles)
    /\ Len(Get(candles)) = 1
    /\ Get(candles)[1].open # Get(candles)[1].close
    /\ Get(ticker).volume > 0
    /\ ~IsNone(cg_info)
    /\ ~IsNone(gh_obj)

\* Two roundings that are sure to give the same value.
CertainlyEqual(S, T) == S = T /\ Cardinality(S) = 1

(* C5: whenever the returned K and M differ, the OTS values of the three
   profiles (alpha 0.7, 0.6, 0.5) for that K and M are pairwise different. *)
C5_ProfilesDiffer ==
    (Scored /\ Res.K # Res.M) =>
        \A a, b \in {7, 6, 5} :
            a # b => ~CertainlyEqual(OTSOutcomes(Res.K, Res.M, a),
                                     OTSOutcomes(Res.K, Res.M, b))

\* The program's labels from the lowest to the highest.
Rank(label) ==
    CASE label = "Avoid" -> 0
      [] label = "Speculative / Small" -> 1
      [] label = "Small / Cautious" -> 2
      [] label = "Tactical / Core" -> 3
      [] label = "Core" -> 4

(* C6: the recommendation never falls as RAR rises: against the label given to
   this RAR, every larger RAR gets a label ranked at least as high and every
   smaller RAR one ranked at most as high. *)
C6_LadderMonotone ==
    ~IsNone(rec) =>
        \A r \in LadderRars :
            /\ r >= Res.RAR => Rank(Recommendation(r)) >= Rank(Get(rec))
            /\ r <= Res.RAR => Rank(Recommendation(r)) <= Rank(Get(rec))

\* a middle rung of the ladder has been given
C6_Witness ==
    /\ ~IsNone(rec)
    /\ Get(rec) = "Small / Cautious"
    /\ Res.RAR > 35000

\* Other volumes, market caps (millions of EUR) and issue counts to compare with.
VolumeProbes == {100000 * k : k \in 0..40} \cup {125000000 * k : k \in 0..17}
MarketCapProbes == {m * 10^e : m \in DOMAIN Log10Table, e \in 0..7}
IssueProbes == {0, 1, 10, 630, 3000, 6300, 12600, 50000, 100000}

CgWithCap(m) == Some([Get(cg_info) EXCEPT !.market_cap_eur = Some(m)])
GhWithIssues(i) == Some([Get(gh_obj) EXCEPT !.open_issues_count = i])

(* C7: sub-scores are monotone in their raw input, the rest held fixed: against
   the scores of this call, no larger volume gives a smaller A5 and no smaller
   volume a larger one; the same for the market cap and A1; and, for a star
   count > 0, for the open issues and r_tech. *)
C7_SubScoresMonotone ==
    Scored =>
        /\ \A v \in VolumeProbes : \A a \in A5(v) :
              /\ v > Get(ticker).volume => a >= Res.trace.K_components.A5_volume
              /\ v < Get(ticker).volume => a <= Res.trace.K_components.A5_volume
        /\ (~IsNone(cg_info) /\ ~IsNone(Get(cg_info).market_cap_eur)) =>
              \A m \in MarketCapProbes : \A a \in A1(CgWithCap(m)) :
                  /\ m > Get(Get(cg_info).market_cap_eur) =>
                        a >= Res.trace.K_components.A1_market_cap
                  /\ m < Get(Get(cg_info).market_cap_eur) =>
                        a <= Res.trace.K_components.A1_market_cap
        /\ (~IsNone(gh_obj) /\ Get(gh_obj).stargazers_count > 0) =>
              \A i \in IssueProbes :
                  /\ i > Get(gh_obj).open_issues_count =>
                        r_tech(GhWithIssues(i)) >= Res.trace.r_tech_calc
                  /\ i < Get(gh_obj).open_issues_count =>
                        r_tech(GhWithIssues(i)) <= Res.trace.r_tech_calc

\* scored for a volume, a market cap and an issue count that each have
\* smaller and larger values to compare with
C7_Witness ==
    /\ Scored
    /\ Get(ticker).volume = 500000000
    /\ Res.trace.K_components.A5_volume = 2500
    /\ ~IsNone(cg_info)
    /\ Get(cg_info).market_cap_eur = Some(1000)
    /\ ~IsNone(gh_obj)
    /\ Get(gh_obj).stargazers_count = 50000
    /\ Get(gh_obj).open_issues_count = 12600

\* price 100, volume 0 and every optional input absent
AllAbsent ==
    /\ ticker = Some([last |-> 100, volume |-> 0])
    /\ IsNone(candles)
    /\ IsNone(cg_info)
    /\ IsNone(gh_obj)

(* C8: with price 100, volume 0 and every optional input absent the run gives
   K = 0.75, M = 0.5, R = 0.405 and recommends "Avoid", for every profile. *)
C8_AllAbsentScenario ==
    AllAbsent =>
        /\ Scored => Res.K = 750 /\ Res.M = 500 /\ Res.R = 405
        /\ pc = "done" => Scored /\ rec = Some("Avoid")

\* the scenario has been reported for the Growth profile
C8_Witness ==
    /\ AllAbsent
    /\ pc = "done"
    /\ profile = "Growth"
    /\ Scored
    /\ rec = Some("Avoid")

(* C9: scores are never computed for a profile outside Conservative, Balanced,
   Growth: whenever a run has computed scores, its profile is one of the three
   and its alpha is the one alpha_map gives that profile. *)
C9_ProfileKnown ==
    Scored => profile \in TheProfiles /\ alpha = Some(alpha_map[profile])

\* scores computed after the user selected Growth
C9_Witness ==
    /\ Scored
    /\ profile = "Growth"
    /\ alpha = Some(5)

\* a history of 2 rows or more whose last close is its first open
FlatHistory ==
    /\ ~NoHistory
    /\ Get(candles)[1].open = Get(candles)[Len(Get(candles))].close

(* C10: the trace tells the 2.5 fallback from a computed flat performance:
   its 30-day change is None exactly when there is no usable history, where
   A15 is the fallback 2.5; and it is the number 0 for a flat history, where
   A15 is the computed 2.5. *)
C10_TraceTellsFallback ==
    Scored =>
        /\ IsNone(Res.trace.pct_change_30d) <=> NoHistory
        /\ IsNone(Res.trace.pct_change_30d) =>
              Res.trace.K_components.A15_perf = A15Fallback
        /\ FlatHistory =>
              /\ Res.trace.pct_change_30d = Some(0)
              /\ Res.trace.K_components.A15_perf = 2500

\* a flat history scored: A15 is 2.5 and the trace holds the number 0
C10_Witness ==
    /\ Scored
    /\ FlatHistory
    /\ Res.trace.pct_change_30d = Some(0)
    /\ Res.trace.K_components.A15_perf = 2500

\* The thousandths of o * c / (100 * 20000000) rounded once, o being a score in
\* hundred-thousandths (at most 500000) and c a factor in twenty-millionths
\* (at most 20000000); the product is formed in parts that stay within 32 bits.
RoundedProduct(o, c) ==
    LET unit == 100 * 20000000
        ch == c \div 10000
        cl == c % 10000
        oh == o \div 1000
        ol == o % 1000
        t1 == o * ch
        t2 == oh * cl
        r1 == (t1 % 200000) * 10000
        r2 == (t2 % 2000000) * 1000
        r3 == ol * cl
        c12 == IF r1 >= unit - r2 THEN 1 ELSE 0
        r12 == IF c12 = 1 THEN r1 - (unit - r2) ELSE r1 + r2
        c3 == IF r12 >= unit - r3 THEN 1 ELSE 0
        r == IF c3 = 1 THEN r12 - (unit - r3) ELSE r12 + r3
        q == (t1 \div 200000) + (t2 \div 2000000) + c12 + c3
    IN  IF r < unit \div 2 THEN {q}
        ELSE IF r > unit \div 2 THEN {q + 1}
        ELSE {q, q + 1}

\* RAR with a single final rounding: K, M, R and OTS formed from the weighted
\* formulas on the sub-scores and risks of the call and kept unrounded, then
\* round(OTS * (1 - R), 3).
FullPrecisionRAR ==
    LET x == Res.trace.K_components
        k == 4 * x.A1_market_cap + 3 * x.A5_volume + 3 * x.A15_perf
        m == 4 * x.B1_github + 4 * x.B6_community + 2 * x.B5_incentives
        ots == Get(alpha) * k + (10 - Get(alpha)) * m
        risk == 8 * Res.trace.r_tech_calc + 7 * r_reg + 5 * Res.trace.r_fin_calc
    IN  RoundedProduct(ots, 20000000 - risk)

(* C11: intermediate values keep full precision until one final rounding: the
   RAR compute_cmef_scores returns is the one obtained by forming K, M, R and
   OTS without any rounding and rounding only OTS * (1 - R). *)
C11_SingleFinalRounding ==
    Scored => Res.RAR \in FullPrecisionRAR

(* C12: every run that reaches the recommendation step shows "Avoid", whatever
   the profile and the market inputs: the RAR of the run is within 0..5, below
   the lowest threshold 20 of the mapping, so no other label is ever shown. *)
C12_AlwaysAvoid ==
    ~IsNone(rec) =>
        /\ Get(rec) = "Avoid"
        /\ 0 <= Res.RAR /\ Res.RAR <= 5000
        /\ Recommendation(Res.RAR) = "Avoid"

\* "Avoid" shown to a Growth profile for a run with RAR of 3.25 or more
C12_Witness ==
    /\ pc = "done"
    /\ rec = Some("Avoid")
    /\ profile = "Growth"
    /\ Res.RAR >= 3250
====
